---- MODULE Spec2Model ----
(***************************************************************************)
(* Model of the portfolio service's price-data cleaning routine,           *)
(* market_data/app.py, _validate_and_clean_prices(price_df,                *)
(* requested_tickers), and of a caller that cleans a raw table and then    *)
(* cleans the returned table once more with the same requested list.       *)
(*                                                                         *)
(* A price table is a record                                               *)
(*   kind    : "DataFrame", "None" (Python None) or "object" (a value      *)
(*             without an .empty attribute)                                *)
(*   columns : the sequence of column labels (tickers)                     *)
(*   nrows   : the number of index entries (trading days)                  *)
(*   data    : column label -> (row -> cell), cell NaN or a price          *)
(* Every pandas / list operation the routine calls is an operator that     *)
(* returns both the receiver after the call (recv) and the value returned  *)
(* (ret), so that in-place mutation is something the model can express.    *)
(***************************************************************************)
EXTENDS Integers, Sequences, FiniteSets, TLC

\* ---------------------------------------------------------------- bounds
MaxRows == 12
MaxReq == 2

\* ------------------------------------------------------------ vocabulary
\* Ticker symbols, listed in the order Python's str comparison sorts them.
TickerOrder == <<"A", "B", "C">>

Tickers == {TickerOrder[i] : i \in 1..Len(TickerOrder)}

Rank(t) == CHOOSE i \in 1..Len(TickerOrder) : TickerOrder[i] = t

\* A missing cell (float NaN); prices are the positive numbers 1, 2.
NaN == 0

SetOf(s) == {s[i] : i \in 1..Len(s)}

InList(t, s) == \E i \in 1..Len(s) : s[i] = t

Max(a, b) == IF a >= b THEN a ELSE b

\* sorted(S) of a set of ticker strings.
RECURSIVE SortedList(_)
SortedList(S) ==
  IF S = {} THEN <<>>
  ELSE LET m == CHOOSE x \in S : \A y \in S : Rank(x) <= Rank(y)
       IN  <<m>> \o SortedList(S \ {m})

NoneObj == [kind |-> "None", columns |-> <<>>, nrows |-> 0, data |-> <<>>]

OtherObj == [kind |-> "object", columns |-> <<>>, nrows |-> 0, data |-> <<>>]

\* ------------------------------------------------------ pandas operations
\* DataFrame.empty: true when any axis has length 0.
IsEmpty(df) == df.nrows = 0 \/ Len(df.columns) = 0

\* Series.count(): the number of non-missing cells of column c.
Count(df, c) == Cardinality({r \in 1..df.nrows : df.data[c][r] # NaN})

\* Series.nunique(dropna=True): the number of distinct non-missing values.
NUnique(df, c) == Cardinality({df.data[c][r] : r \in 1..df.nrows} \ {NaN})

\* A column dropna(how="all") drops: no non-missing cell at all.
AllNaN(df, c) == \A r \in 1..df.nrows : df.data[c][r] = NaN

\* A new frame holding the columns keep (in order) of df, same index.
Project(df, keep) ==
  [kind |-> "DataFrame", columns |-> keep, nrows |-> df.nrows,
   data |-> [c \in SetOf(keep) |-> df.data[c]]]

\* price_df.dropna(axis=1, how="all", inplace=True): the slip that would
\* change the caller's frame.
DropnaColsInplace(df) ==
  LET kept == Project(df, SelectSeq(df.columns, LAMBDA c : ~AllNaN(df, c)))
  IN  [recv |-> kept, ret |-> kept]

\* dropna(axis=1, how="any"): drops every column that has some missing cell.
DropnaColsAny(df) ==
  [recv |-> df,
   ret  |-> Project(df, SelectSeq(df.columns, LAMBDA c : Count(df, c) = df.nrows))]

\* price_df.dropna(axis=1, how="all"): a new frame without the all-NaN
\* columns; the receiver is left as it was.
DropnaCols(df) ==
  [recv |-> df,
   ret  |-> Project(df, SelectSeq(df.columns, LAMBDA c : ~AllNaN(df, c)))]

\* clean.drop(columns=cs): a new frame without the columns cs.
DropColumns(df, cs) ==
  [recv |-> df,
   ret  |-> Project(df, SelectSeq(df.columns, LAMBDA c : ~InList(c, cs)))]

\* ---------------------------------------- _validate_and_clean_prices steps
\* removed = [] : the slip of not tracking the requested tickers at all.
MissingRequestedNone(req, clean) == <<>>

\* removed = [t for t in requested_tickers if t not in list(clean.columns)]
MissingRequested(req, clean) ==
  SelectSeq(req, LAMBDA t : ~InList(t, clean.columns))

InsufficientHistoryLoose(clean) == clean.nrows < 1

\* clean.shape[0] < 2
InsufficientHistory(clean) == clean.nrows < 2

MinObsFixed(n) == 2

\* min_obs = max(2, int(len(clean) * 0.25))
MinObs(n) == Max(2, (25 * n) \div 100)

LowObsOffByOne(clean) ==
  SelectSeq(clean.columns,
            LAMBDA c : Count(clean, c) < MinObs(clean.nrows) - 1)

\* low_obs = [c for c in clean.columns if clean[c].count() < min_obs]
LowObs(clean) ==
  SelectSeq(clean.columns, LAMBDA c : Count(clean, c) < MinObs(clean.nrows))

ConstColsStrict(clean) ==
  SelectSeq(clean.columns, LAMBDA c : NUnique(clean, c) < 1)

\* const_cols = [c for c in clean.columns if clean[c].nunique(dropna=True) <= 1]
ConstCols(clean) ==
  SelectSeq(clean.columns, LAMBDA c : NUnique(clean, c) <= 1)

NoneLeftNever(clean) == clean.nrows = 0

\* clean.empty or clean.shape[1] < 1
NoneLeft(clean) == IsEmpty(clean) \/ Len(clean.columns) < 1

\* list(dict.fromkeys(removed)): first occurrences, in discovery order.
RECURSIVE Dedupe(_)
Dedupe(s) ==
  IF s = <<>> THEN <<>>
  ELSE LET init == Dedupe(SubSeq(s, 1, Len(s) - 1))
       IN  IF InList(s[Len(s)], init) THEN init ELSE Append(init, s[Len(s)])

ReturnedRemovedDiscovery(removed) == Dedupe(removed)

\* sorted(set(removed)), the list returned and the one in the last message.
ReturnedRemoved(removed) == SortedList(SetOf(removed))

EmptyFirstColumnsOnly(df) == df.kind = "DataFrame" /\ Len(df.columns) = 0

\* The first two checks: price_df is None, no .empty attribute, or .empty.
EmptyFirst(df) == df.kind # "DataFrame" \/ IsEmpty(df)

Raise(text, rows, removed) ==
  [status |-> "error", error |-> text, rows |-> rows,
   table |-> NoneObj, removed |-> removed]

Return(clean, removed) ==
  [status |-> "ok", error |-> "", rows |-> clean.nrows,
   table |-> clean, removed |-> removed]

\* The local list `removed` as it stands before line 59 (discovery order,
\* duplicates kept), clean0 being the frame dropna returned.
RemovedLocal(clean0, req) ==
  LET removed0 == MissingRequested(req, clean0)
      low_obs  == LowObs(clean0)
      clean1   == IF low_obs # <<>> THEN DropColumns(clean0, low_obs).ret
                  ELSE clean0
      removed1 == IF low_obs # <<>> THEN removed0 \o low_obs ELSE removed0
      const    == ConstCols(clean1)
  IN  IF const # <<>> THEN removed1 \o const ELSE removed1

\* The frame `clean` as it stands before line 59.
CleanLocal(clean0) ==
  LET low_obs == LowObs(clean0)
      clean1  == IF low_obs # <<>> THEN DropColumns(clean0, low_obs).ret
                 ELSE clean0
      const   == ConstCols(clean1)
  IN  IF const # <<>> THEN DropColumns(clean1, const).ret ELSE clean1

\* The whole call: what it returns or raises (out), and the caller's two
\* arguments as they stand after it (df_after, req_after).
ValidateAndClean(df, req) ==
  IF df.kind = "None"
  THEN [out |-> Raise("price data is None", 0, <<>>),
        df_after |-> df, req_after |-> req]
  ELSE IF EmptyFirst(df)
  THEN [out |-> Raise("price data is empty", 0, <<>>),
        df_after |-> df, req_after |-> req]
  ELSE
    LET dn     == DropnaCols(df)
        clean0 == dn.ret
        rem0   == MissingRequested(req, clean0)
    IN  IF InsufficientHistory(clean0)
        THEN [out |-> Raise("insufficient history rows", clean0.nrows, rem0),
              df_after |-> dn.recv, req_after |-> req]
        ELSE
          LET removed == RemovedLocal(clean0, req)
              clean   == CleanLocal(clean0)
          IN  IF NoneLeft(clean)
              THEN [out |-> Raise("no valid tickers left after cleaning",
                                  clean.nrows, ReturnedRemoved(removed)),
                    df_after |-> dn.recv, req_after |-> req]
              ELSE [out |-> Return(clean, ReturnedRemoved(removed)),
                    df_after |-> dn.recv, req_after |-> req]

\* ------------------------------------------------------------ input space
\* A column of n rows with its first k cells priced and the rest missing;
\* the prices are all 1 (constant) or alternate 2, 1, 2, ... (varied).
Column(n, k, varied) ==
  [r \in 1..n |-> IF r <= k THEN (IF varied THEN 1 + (r % 2) ELSE 1) ELSE NaN]

\* The columns a table of n days is built from: priced on no day, on one,
\* on two, on a quarter of the days or on all of them.
ColumnShapes(n) ==
  {Column(n, k, v) :
     k \in {j \in 0..n : j <= 2 \/ j = n \div 4 \/ j = n}, v \in BOOLEAN}

\* Frames of n rows over the column set cs. The provider labels the columns
\* itself and delivers them sorted, so a label need not be a requested
\* symbol and a requested symbol need not be a label.
Frames(n, cs) ==
  {[kind |-> "DataFrame", columns |-> SortedList(cs), nrows |-> n, data |-> d] :
     d \in [cs -> ColumnShapes(n)]}

AllFrames == UNION {Frames(n, cs) : n \in 0..MaxRows, cs \in SUBSET Tickers}

\* The caller's ticker lists (every endpoint rejects an empty one): every
\* list of 1 to MaxReq symbols, repeats and any order allowed, and the list
\* that names every ticker once.
RequestLists == UNION {[1..l -> Tickers] : l \in 1..MaxReq} \cup {TickerOrder}

NoResult == Raise("", 0, <<>>)

\* ------------------------------------------------------------------ state
VARIABLES price_df, requested_tickers, pc, result, result2

\* The PortfolioOptimizer object, the number of calls made to the
\* risk-free-rate provider, and the last method call with its outcome.
VARIABLES optimizer, fetches, last_call

\* The last get_list_of_screened_stocks call, the EdgarRetriever object and
\* the last response of /api/portfolio/optimize.
VARIABLES screened, edgar, response

\* The service process under concurrent requests: the handlers in progress,
\* numpy's global random state, the clock in seconds, pyplot's figures and
\* the files of the charts directory.
VARIABLES procs, np_random, clock, figures, charts

vars == <<price_df, requested_tickers, pc, result, result2,
          optimizer, fetches, last_call, screened, edgar, response,
          procs, np_random, clock, figures, charts>>

serverVars == <<procs, np_random, clock, figures, charts>>

extVars == <<screened, edgar, response, serverVars>>

cleanVars == <<price_df, requested_tickers, pc, result, result2>>

optVars == <<optimizer, fetches, last_call>>

\* ------------------------------------------- pyportfolio.PortfolioOptimizer
\* Rates are in basis points: 0.02 is 200.
DefaultRate == 200

\* A float NaN rate, and "no rate" (Python None).
RateNaN == -1

RateNone == -2

MaxFetches == 2

VALID_HOLDING_PERIODS ==
  <<"1 Mo", "3 Mo", "6 Mo", "1 Yr", "2 Yr", "3 Yr", "5 Yr", "7 Yr",
    "10 Yr", "30 Yr">>

period_map ==
  <<"1mo", "3mo", "6mo", "1y", "2y", "3y", "5y", "7y", "10y", "30y">>

\* A test that takes the yfinance forms too.
ValidHoldingPeriodLoose(hp) ==
  InList(hp, VALID_HOLDING_PERIODS)
  \/ \E i \in 1..10 :
       hp = <<"1mo", "3mo", "6mo", "1y", "2y", "3y", "5y", "7y", "10y",
              "30y">>[i]

\* holding_period in self.VALID_HOLDING_PERIODS
ValidHoldingPeriod(hp) == InList(hp, VALID_HOLDING_PERIODS)

\* period_map.get(holding_period, "1mo")
ConvertHoldingPeriod(hp) ==
  IF InList(hp, VALID_HOLDING_PERIODS)
  THEN period_map[CHOOSE i \in 1..Len(VALID_HOLDING_PERIODS) :
                    VALID_HOLDING_PERIODS[i] = hp]
  ELSE "1mo"

\* What pb.get_riskfree_rate does when called: it raises (the download
\* fails, the yields are empty, the column is missing), returns NaN (the
\* column's mean is NaN) or returns the mean rate; a provider that returns
\* None is covered too, as _fetch_rf_rate is written for it.
ProviderOutcomes ==
  {[kind |-> "raise", value |-> RateNone],
   [kind |-> "None", value |-> RateNone],
   [kind |-> "NaN", value |-> RateNaN],
   [kind |-> "value", value |-> 300],
   [kind |-> "value", value |-> 450]}

NoFetch == [kind |-> "none", value |-> RateNone]

\* The rates a caller passes by hand.
ManualRates == {100, 200}

\* _fetch_rf_rate without the None/NaN test.
FetchRfRateUnchecked(outcome) ==
  IF outcome.kind = "raise" THEN DefaultRate ELSE outcome.value

\* _fetch_rf_rate: the provider's rate, or 0.02 when it raises or returns
\* None or NaN.
FetchRfRate(outcome) ==
  IF outcome.kind = "raise" THEN DefaultRate
  ELSE IF outcome.value = RateNone \/ outcome.value = RateNaN THEN DefaultRate
  ELSE outcome.value

NoOptimizer ==
  [alive |-> FALSE, data |-> "none", holding_period |-> "none",
   period |-> "none", rf_rate |-> RateNone]

\* No call made to the solver.
NoSolverCall == [fn |-> "none", target |-> RateNone, rf |-> RateNone]

\* What a get_weights call leaves behind: its arguments, the path it was
\* reached by, the objectives added to the EfficientFrontier, the call made
\* to the solver, the solver's raw weights, the second and third elements
\* of the returned tuple, the diagnostics printed and those attached to the
\* exception raised.
NoSolve ==
  [method |-> "none", round |-> TRUE, target |-> RateNone, path |-> "none",
   mu |-> "none", objectives |-> <<>>, solver |-> NoSolverCall,
   raw |-> <<>>, second |-> <<>>, third |-> <<>>, printed |-> {},
   carried |-> {}]

\* What a get_allocation call leaves behind: its arguments (weights, the
\* latest prices of self.data, the portfolio value), what lp_portfolio
\* gave (lp_shares, lp_leftover) and what the method returned: the share
\* mapping, and the leftover if has_leftover.
NoAllocation ==
  [weights |-> <<>>, prices |-> <<>>, cash |-> 0, lp_shares |-> <<>>,
   lp_leftover |-> 0, shares |-> <<>>, has_leftover |-> FALSE,
   leftover |-> 0]

\* The record of the last call. target, returns_type and cov_type are the
\* caller's request; allocation is what get_allocation did.
NoCall ==
  [op |-> "none", arg |-> "", rate |-> RateNone, status |-> "ok",
   error |-> "", fetch |-> NoFetch, estimator |-> "none", ret |-> RateNone,
   target |-> RateNone, returns_type |-> "", cov_type |-> "",
   allocation |-> NoAllocation, solve |-> NoSolve]

\* What a method call does: the object after it (self), whether it returned
\* or raised (status, error), what it returned (ret), which estimator it
\* ran, and the provider call it made (fetch; NoFetch when it made none).
Outcome(self, status, error, ret, estimator, fetch) ==
  [self |-> self, status |-> status, error |-> error, ret |-> ret,
   estimator |-> estimator, fetch |-> fetch]

\* __init__ that fetches whatever rf_rate it is given.
ConstructAlwaysFetch(data, hp, rf_rate, outcome) ==
  IF ~ValidHoldingPeriod(hp)
  THEN Outcome(NoOptimizer, "error", "holding_period must be one of",
               RateNone, "none", NoFetch)
  ELSE Outcome([alive |-> TRUE, data |-> data, holding_period |-> hp,
                period |-> ConvertHoldingPeriod(hp),
                rf_rate |-> FetchRfRate(outcome)],
               "ok", "", RateNone, "none", outcome)

\* PortfolioOptimizer(data, holding_period, rf_rate); outcome is what the
\* provider does if it is called.
Construct(data, hp, rf_rate, outcome) ==
  IF ~ValidHoldingPeriod(hp)
  THEN Outcome(NoOptimizer, "error", "holding_period must be one of",
               RateNone, "none", NoFetch)
  ELSE IF rf_rate = RateNone
  THEN Outcome([alive |-> TRUE, data |-> data, holding_period |-> hp,
                period |-> ConvertHoldingPeriod(hp),
                rf_rate |-> FetchRfRate(outcome)],
               "ok", "", RateNone, "none", outcome)
  ELSE Outcome([alive |-> TRUE, data |-> data, holding_period |-> hp,
                period |-> ConvertHoldingPeriod(hp), rf_rate |-> rf_rate],
               "ok", "", RateNone, "none", NoFetch)

\* set_rf_rate(rf_rate)
SetRfRate(self, rf_rate) ==
  Outcome([self EXCEPT !.rf_rate = rf_rate], "ok", "", RateNone, "none",
          NoFetch)

\* set_holding_period that leaves self.period as it was.
SetHoldingPeriodStalePeriod(self, hp, outcome) ==
  IF ~ValidHoldingPeriod(hp)
  THEN Outcome(self, "error", "holding_period must be one of", RateNone,
               "none", NoFetch)
  ELSE Outcome([self EXCEPT !.holding_period = hp,
                            !.rf_rate = FetchRfRate(outcome)],
               "ok", "", RateNone, "none", outcome)

\* set_holding_period(holding_period)
SetHoldingPeriod(self, hp, outcome) ==
  IF ~ValidHoldingPeriod(hp)
  THEN Outcome(self, "error", "holding_period must be one of", RateNone,
               "none", NoFetch)
  ELSE Outcome([self EXCEPT !.holding_period = hp,
                            !.period = ConvertHoldingPeriod(hp),
                            !.rf_rate = FetchRfRate(outcome)],
               "ok", "", RateNone, "none", outcome)

\* get_rf_rate()
GetRfRate(self) == Outcome(self, "ok", "", self.rf_rate, "none", NoFetch)

\* get_expected_returns that takes any unknown type for the mean.
GetExpectedReturnsLenient(self, type, est_ok) ==
  LET est == IF type = "capm" THEN "capm_return"
             ELSE IF type = "ema" THEN "ema_historical_return"
             ELSE "mean_historical_return"
  IN  Outcome(self, IF est_ok THEN "ok" ELSE "error",
              IF est_ok THEN "" ELSE "estimator raised", RateNone, est,
              NoFetch)

\* get_expected_returns(type); est_ok: whether the pypfopt estimator returns.
GetExpectedReturns(self, type, est_ok) ==
  LET est == IF type = "mean" THEN "mean_historical_return"
             ELSE IF type = "capm" THEN "capm_return"
             ELSE IF type = "ema" THEN "ema_historical_return"
             ELSE "none"
  IN  IF est = "none"
      THEN Outcome(self, "error", "Invalid type. Use 'mean', 'capm', or 'ema'.",
                   RateNone, "none", NoFetch)
      ELSE Outcome(self, IF est_ok THEN "ok" ELSE "error",
                   IF est_ok THEN "" ELSE "estimator raised", RateNone, est,
                   NoFetch)

\* get_covariance_matrix(type, freq=252)
GetCovarianceMatrix(self, type, est_ok) ==
  LET est == IF type = "ledoit_wolf" THEN "CovarianceShrinkage.ledoit_wolf"
             ELSE IF type = "semicovariance" THEN "semicovariance"
             ELSE IF type = "exponential" THEN "exp_cov"
             ELSE "none"
  IN  IF est = "none"
      THEN Outcome(self, "error",
                   "Invalid type. Use 'ledoit_wolf', 'semicovariance', or 'exponential'.",
                   RateNone, "none", NoFetch)
      ELSE Outcome(self, IF est_ok THEN "ok" ELSE "error",
                   IF est_ok THEN "" ELSE "estimator raised", RateNone, est,
                   NoFetch)

\* The labels and type names callers pass: the valid ones and some others.
HoldingPeriodInputs == SetOf(VALID_HOLDING_PERIODS) \cup {"1y", "12 Mo"}

ReturnsTypeInputs == {"mean", "capm", "ema", "bogus"}

CovTypeInputs ==
  {"ledoit_wolf", "semicovariance", "exponential", "exp_cov", "bogus"}

\* The record of a call: the operation, its arguments and its outcome.
Record(op, arg, rate, o) ==
  [NoCall EXCEPT !.op = op, !.arg = arg, !.rate = rate, !.status = o.status,
                 !.error = o.error, !.fetch = o.fetch,
                 !.estimator = o.estimator, !.ret = o.ret]

\* The provider was called once more if the call made a fetch.
Fetched(o) == IF o.fetch = NoFetch THEN fetches ELSE fetches + 1

DoConstruct ==
  /\ ~optimizer.alive
  /\ \E hp \in HoldingPeriodInputs, r \in ManualRates \cup {RateNone},
        f \in ProviderOutcomes :
       LET o == Construct("prices", hp, r, f)
       IN  /\ optimizer' = o.self
           /\ fetches' = Fetched(o)
           /\ last_call' = Record("__init__", hp, r, o)
  /\ UNCHANGED <<cleanVars, extVars>>

DoSetRfRate ==
  /\ optimizer.alive
  /\ \E r \in ManualRates :
       LET o == SetRfRate(optimizer, r)
       IN  /\ optimizer' = o.self
           /\ fetches' = Fetched(o)
           /\ last_call' = Record("set_rf_rate", "", r, o)
  /\ UNCHANGED <<cleanVars, extVars>>

DoSetHoldingPeriod ==
  /\ optimizer.alive
  /\ fetches < MaxFetches
  /\ \E hp \in HoldingPeriodInputs, f \in ProviderOutcomes :
       LET o == SetHoldingPeriod(optimizer, hp, f)
       IN  /\ optimizer' = o.self
           /\ fetches' = Fetched(o)
           /\ last_call' = Record("set_holding_period", hp, RateNone, o)
  /\ UNCHANGED <<cleanVars, extVars>>

DoGetRfRate ==
  /\ optimizer.alive
  /\ LET o == GetRfRate(optimizer)
     IN  /\ optimizer' = o.self
         /\ fetches' = Fetched(o)
         /\ last_call' = Record("get_rf_rate", "", RateNone, o)
  /\ UNCHANGED <<cleanVars, extVars>>

DoGetExpectedReturns ==
  /\ optimizer.alive
  /\ \E t \in ReturnsTypeInputs, ok \in BOOLEAN :
       LET o == GetExpectedReturns(optimizer, t, ok)
       IN  /\ optimizer' = o.self
           /\ fetches' = Fetched(o)
           /\ last_call' = Record("get_expected_returns", t, RateNone, o)
  /\ UNCHANGED <<cleanVars, extVars>>

DoGetCovarianceMatrix ==
  /\ optimizer.alive
  /\ \E t \in CovTypeInputs, ok \in BOOLEAN :
       LET o == GetCovarianceMatrix(optimizer, t, ok)
       IN  /\ optimizer' = o.self
           /\ fetches' = Fetched(o)
           /\ last_call' = Record("get_covariance_matrix", t, RateNone, o)
  /\ UNCHANGED <<cleanVars, extVars>>

\* ------------------------------------------------ get_weights and callers
\* Weights are in units of 1e-5: 1.0 is 100000.
WeightOne == 100000

\* clean_weights(cutoff=1e-4, rounding=3) in those units.
Cutoff == 10

RoundStep == 100

L2GammaTenths == 1

MaxAssets == 5

Abs(x) == IF x < 0 THEN 0 - x ELSE x

\* Truncation to 3 decimals in place of rounding.
Round3Floor(x) == (x \div RoundStep) * RoundStep

\* np.round(x, 3) of a weight x >= 0: the nearest multiple of 0.001, a tie
\* going to the even one.
Round3(x) ==
  LET q == x \div RoundStep
      r == x % RoundStep
  IN  IF 2 * r < RoundStep THEN q * RoundStep
      ELSE IF 2 * r > RoundStep THEN (q + 1) * RoundStep
      ELSE IF q % 2 = 0 THEN q * RoundStep ELSE (q + 1) * RoundStep

\* EfficientFrontier.clean_weights(cutoff, rounding): entries whose absolute
\* value is below the cutoff become 0, then every entry is rounded; the
\* mapping keeps every ticker.
CleanWeights(w) ==
  [i \in 1..Len(w) |-> Round3(IF Abs(w[i]) < Cutoff THEN 0 ELSE w[i])]

SecondElementRaw(round, w) == w

\* if round: weights = portfolio_obj.clean_weights(cutoff=1e-4, rounding=3)
SecondElement(round, w) == IF round THEN CleanWeights(w) ELSE w

ThirdElementAll(weights) == weights

\* wts = {k: v for k, v in weights.items() if v != 0}
ThirdElement(weights) ==
  [i \in {j \in 1..Len(weights) : weights[j] # 0} |-> weights[i]]

ObjectivesAlways(method) == <<[fn |-> "L2_reg", gamma |-> L2GammaTenths]>>

\* if method != "max_sharpe": add_objective(objective_functions.L2_reg,
\* gamma=0.1), on a new EfficientFrontier.
Objectives(method) ==
  IF method # "max_sharpe"
  THEN <<[fn |-> "L2_reg", gamma |-> L2GammaTenths]>>
  ELSE <<>>

\* The four branches of get_weights: the solver method called, with the
\* target or the risk-free rate it is given.
SolverCall(self, method, target) ==
  IF method = "max_sharpe"
  THEN [fn |-> "max_sharpe", target |-> RateNone, rf |-> self.rf_rate]
  ELSE IF method = "min_volatility"
  THEN [fn |-> "min_volatility", target |-> RateNone, rf |-> RateNone]
  ELSE IF method = "efficient_return"
  THEN [fn |-> "efficient_return", target |-> target, rf |-> RateNone]
  ELSE IF method = "efficient_risk"
  THEN [fn |-> "efficient_risk", target |-> target, rf |-> RateNone]
  ELSE NoSolverCall

\* What the solver does with a call: efficient_return and efficient_risk
\* reject a target that is not a number; otherwise the solver returns raw
\* weights or raises, as the problem decides (env).
SolverRun(call, env) ==
  IF call.fn \in {"efficient_return", "efficient_risk"}
     /\ call.target = RateNone
  THEN [kind |-> "raise", exc |-> "ValueError", w |-> <<>>]
  ELSE env

\* The figures the except block prints.
DiagFields ==
  {"method", "solver", "rf_rate", "n_assets", "returns_range",
   "returns_mean", "nan_in_returns", "nan_in_covariance"}

\* mu as the caller passes it: the Series get_expected_returns returns, or
\* an array, which EfficientFrontier takes as well.
MuKinds == {"Series", "ndarray"}

\* The except block at work: len(mu), mu.min(), mu.max() and mu.mean() are
\* there for both kinds, mu.isna() for a Series only.
Diagnostics(mu) ==
  IF mu = "Series"
  THEN [printed |-> DiagFields, raises |-> ""]
  ELSE [printed |-> DiagFields \ {"nan_in_returns", "nan_in_covariance"},
        raises |-> "AttributeError"]

\* The bare `raise` of the except block: the exception that was caught.
Reraise(exc) == exc

\* get_weights(mu, S, round, method, target); env is what the solver does
\* with the problem. status/error: returned, or the exception raised.
GetWeights(self, mu, method, round, target, env) ==
  LET call == SolverCall(self, method, target)
      diag == Diagnostics(mu)
      run  == IF call = NoSolverCall
              THEN [kind |-> "raise", exc |-> "ValueError: Invalid method",
                    w |-> <<>>]
              ELSE SolverRun(call, env)
      base == [NoSolve EXCEPT !.method = method, !.round = round,
                              !.target = target, !.mu = mu,
                              !.path = "get_weights",
                              !.objectives = Objectives(method),
                              !.solver = call]
  IN  IF run.kind = "raise"
      THEN [status |-> "error",
            error |-> IF diag.raises # "" THEN diag.raises
                      ELSE Reraise(run.exc),
            solve |-> [base EXCEPT !.printed = diag.printed]]
      ELSE LET second == SecondElement(round, run.w)
           IN  [status |-> "ok", error |-> "",
                solve |-> [base EXCEPT !.raw = run.w, !.second = second,
                                       !.third = ThirdElement(second)]]

\* get_performance(mu, S, round, method): get_weights without a target,
\* then portfolio_performance with the optimizer's rate.
GetPerformance(self, mu, method, round, env) ==
  GetWeights(self, mu, method, round, RateNone, env)

\* The values the /api/portfolio/optimize request schema lists.
SchemaMethods ==
  {"max_sharpe", "min_volatility", "max_quadratic_utility",
   "efficient_risk", "efficient_return"}

SchemaCovTypes == {"ledoit_wolf", "semicovariance", "exp_cov"}

SchemaReturnsTypes == {"mean", "capm", "ema"}

\* optimize_portfolio from the optimizer's construction on: the estimates,
\* then get_performance(mu, S, round=True, method=method); any exception
\* becomes a 500 with its text. The request's target is never read.
OptimizePortfolio(self, method, returns_type, cov_type, target, env) ==
  LET mu == GetExpectedReturns(self, returns_type, TRUE)
      S  == GetCovarianceMatrix(self, cov_type, TRUE)
  IN  IF mu.status = "error"
      THEN [status |-> "500", error |-> mu.error, solve |-> NoSolve]
      ELSE IF S.status = "error"
      THEN [status |-> "500", error |-> S.error, solve |-> NoSolve]
      ELSE LET p == GetPerformance(self, "Series", method, TRUE, env)
           IN  [status |-> IF p.status = "ok" THEN "200" ELSE "500",
                error |-> p.error, solve |-> p.solve]

\* ----------------------------------------------------------- allocation
RECURSIVE Sum(_)
Sum(w) == IF w = <<>> THEN 0 ELSE w[Len(w)] + Sum(SubSeq(w, 1, Len(w) - 1))

\* The cost of x[i] shares at p[i] each.
Cost(x, p) == Sum([i \in 1..Len(p) |-> x[i] * p[i]])

LpFeasibleNoBudget(x, p, total) == \A i \in 1..Len(p) : x[i] >= 0

\* The constraints of lp_portfolio: x >= 0, and r >= 0 for the cash left
\* r = total - p.x
LpFeasible(x, p, total) ==
  /\ \A i \in 1..Len(p) : x[i] >= 0
  /\ total - Cost(x, p) >= 0

\* Its objective, times WeightOne: sum |w[i] * total - x[i] * p[i]| + r
LpObjective(w, x, p, total) ==
  Sum([i \in 1..Len(p) |-> Abs(w[i] * total - WeightOne * x[i] * p[i])])
  + WeightOne * (total - Cost(x, p))

\* The integer share vectors lp_portfolio chooses from, and the optimal
\* ones among them (no asset alone can be bought beyond the cash).
LpCandidates(p, total) ==
  LET cheapest == CHOOSE c \in SetOf(p) : \A d \in SetOf(p) : c <= d
  IN  {x \in [1..Len(p) -> 0..(total \div cheapest)] :
         /\ \A i \in 1..Len(p) : x[i] * p[i] <= total
         /\ LpFeasible(x, p, total)}

LpPortfolio(w, p, total) ==
  LET F == LpCandidates(p, total)
      V == {LpObjective(w, x, p, total) : x \in F}
      m == CHOOSE v \in V : \A u \in V : v <= u
  IN  {x \in F : LpObjective(w, x, p, total) = m}

\* _remove_zero_positions
RemoveZeroPositions(x) == [i \in {j \in DOMAIN x : x[j] # 0} |-> x[i]]

\* allocation, leftover = da.lp_portfolio(verbose=True); return allocation
Returned(x, p, total) ==
  [shares |-> RemoveZeroPositions(x), has_leftover |-> FALSE, leftover |-> 0]

\* get_allocation(weights, port_value) on latest prices p: DiscreteAllocation
\* refuses a portfolio value that is not positive; lp_portfolio then gives
\* the shares x, one of the optimal vectors, or raises when the integer
\* program is not solved (env).
GetAllocation(self, weights, port_value, p, env) ==
  LET base == [NoAllocation EXCEPT !.weights = weights, !.prices = p,
                                   !.cash = port_value]
  IN  IF port_value <= 0
      THEN [status |-> "error", error |-> "ValueError", allocation |-> base]
      ELSE IF env.kind = "raise"
      THEN [status |-> "error", error |-> env.exc, allocation |-> base]
      ELSE LET r == Returned(env.x, p, port_value)
           IN  [status |-> "ok", error |-> "",
                allocation |->
                  [base EXCEPT !.lp_shares = RemoveZeroPositions(env.x),
                               !.lp_leftover = port_value - Cost(env.x, p),
                               !.shares = r.shares,
                               !.has_leftover = r.has_leftover,
                               !.leftover = r.leftover]]

\* What lp_portfolio can do with a problem.
LpOutcomes(weights, p, port_value) ==
  {[kind |-> "raise", exc |-> "OptimizationError", x |-> <<>>]}
  \cup (IF port_value <= 0 THEN {}
        ELSE {[kind |-> "shares", exc |-> "", x |-> x] :
                x \in LpPortfolio(weights, p, port_value)})

\* ------------------------------------------------------- solver problems
\* Raw weights of the samples: an exact zero, a weight under the cutoff, one
\* at the cutoff (it rounds to zero), one that rounds up to 0.001 and one
\* that rounds down; no sample sits on a rounding tie, which the binary
\* float would decide. The last asset takes what is left of 1.0, and the
\* weights are within the solver's bounds (0, 1).
WeightGrid == {0, 5, 10, 60, 20040}

RawWeights ==
  {w \in UNION {{Append(h, WeightOne - Sum(h)) :
                   h \in [1..(n - 1) -> WeightGrid]} : n \in 1..MaxAssets} :
     w[Len(w)] >= 0}

SolverFailures ==
  {[kind |-> "raise", exc |-> "OptimizationError", w |-> <<>>],
   [kind |-> "raise", exc |-> "ValueError", w |-> <<>>]}

SolverOutcomes ==
  {[kind |-> "weights", exc |-> "", w |-> w] : w \in RawWeights}
  \cup SolverFailures

\* A few problems, for the runs that are not about the weights.
FewOutcomes ==
  {[kind |-> "weights", exc |-> "", w |-> <<20040, 60, 79900>>]}
  \cup SolverFailures

\* One problem solved and one failed, for the runs about the rate.
TwoOutcomes ==
  {[kind |-> "weights", exc |-> "", w |-> <<20040, 60, 79900>>],
   [kind |-> "raise", exc |-> "OptimizationError", w |-> <<>>]}

MethodInputs == SchemaMethods \cup {"bogus"}

TargetInputs == {RateNone, 15}

\* Allocation problems: weights as get_weights returns them (zeros kept),
\* positive latest prices, and portfolio values, some not positive.
AllocationWeights ==
  {<<50000, 50000>>, <<0, 100000>>, <<20000, 100, 79900>>,
   <<33300, 33300, 33400>>}

PriceInputs == {30, 50, 100}

CashInputs == {-100, 0, 130, 250}

\* Weights 0.5 and 0.5, prices 100 and 50, cash 1000.
ExampleProblem ==
  [weights |-> <<50000, 50000>>, prices |-> <<100, 50>>, cash |-> 1000]

AllocationProblems ==
  {[weights |-> w, prices |-> p, cash |-> c] :
     w \in AllocationWeights, p \in UNION {[1..n -> PriceInputs] : n \in 2..3},
     c \in CashInputs}
  \cup {ExampleProblem}

\* The record of a solving call: the caller's request and what
\* get_weights left, under the path it was reached by.
RecordSolve(op, m, t, rt, ct, r) ==
  [NoCall EXCEPT !.op = op, !.arg = m, !.target = t, !.returns_type = rt,
                 !.cov_type = ct, !.status = r.status, !.error = r.error,
                 !.solve = IF r.solve = NoSolve THEN NoSolve
                           ELSE [r.solve EXCEPT !.path = op]]

DoGetWeights(mus, envs) ==
  /\ optimizer.alive
  /\ \E mu \in mus, m \in MethodInputs, rnd \in BOOLEAN,
        t \in TargetInputs, env \in envs :
       last_call' = RecordSolve("get_weights", m, t, "", "",
                                GetWeights(optimizer, mu, m, rnd, t, env))
  /\ UNCHANGED <<optimizer, fetches, cleanVars, extVars>>

\* get_performance has no target parameter.
DoGetPerformance(envs) ==
  /\ optimizer.alive
  /\ \E m \in MethodInputs, rnd \in BOOLEAN, env \in envs :
       last_call' =
         RecordSolve("get_performance", m, RateNone, "", "",
                     GetPerformance(optimizer, "Series", m, rnd, env))
  /\ UNCHANGED <<optimizer, fetches, cleanVars, extVars>>

\* The request's target is whatever the caller put in the body.
DoOptimizePortfolio ==
  /\ optimizer.alive
  /\ \E m \in MethodInputs, rt \in ReturnsTypeInputs, ct \in CovTypeInputs,
        t \in TargetInputs, env \in FewOutcomes :
       last_call' =
         RecordSolve("optimize_portfolio", m, t, rt, ct,
                     OptimizePortfolio(optimizer, m, rt, ct, t, env))
  /\ UNCHANGED <<optimizer, fetches, cleanVars, extVars>>

DoGetAllocation(problems) ==
  /\ optimizer.alive
  /\ \E q \in {q \in problems : Len(q.weights) = Len(q.prices)} :
       \E env \in LpOutcomes(q.weights, q.prices, q.cash) :
         LET r == GetAllocation(optimizer, q.weights, q.cash, q.prices, env)
         IN  last_call' = [NoCall EXCEPT !.op = "get_allocation",
                                         !.status = r.status,
                                         !.error = r.error,
                                         !.allocation = r.allocation]
  /\ UNCHANGED <<optimizer, fetches, cleanVars, extVars>>

\* ---------------------------- PortfolioBuilder.get_list_of_screened_stocks
DefaultCap == 15

DefaultCount == 10

MaxScreenRows == 17

\* int(v) of a cap given as an int, as a float in tenths (27 is 2.7) or as
\* a text that is no number: the float loses its fraction, the text raises.
IntOf(v) ==
  IF v.kind = "int" THEN [ok |-> TRUE, value |-> v.value]
  ELSE IF v.kind = "float"
  THEN [ok |-> TRUE,
        value |-> IF v.value >= 0 THEN v.value \div 10
                  ELSE 0 - ((0 - v.value) \div 10)]
  ELSE [ok |-> FALSE, value |-> 0]

\* yf_screener.__init__: max_results_cap is int(max_results_cap), or 15
\* when that is not positive or int() raises.
YfScreener(predef_query, count, max_results_cap) ==
  LET c == IntOf(max_results_cap)
  IN  [predef_query |-> predef_query, count |-> count,
       max_results_cap |-> IF c.ok /\ c.value > 0 THEN c.value
                           ELSE DefaultCap]

\* _enforce_cap on a table of n rows: the first max_results_cap rows when
\* there are more.
EnforceCap(self, n) ==
  IF self.max_results_cap # 0 /\ n > self.max_results_cap
  THEN self.max_results_cap
  ELSE n

\* screen_predefined(): resp is what yfinance's screen does: it raises (an
\* empty table is returned), or gives rows, with or without a symbol
\* column.
ScreenPredefined(self, resp) ==
  IF self.predef_query = ""
  THEN [status |-> "error", error |-> "ValueError", rows |-> 0,
        symbol |-> FALSE]
  ELSE IF resp.kind = "raise"
  THEN [status |-> "ok", error |-> "", rows |-> 0, symbol |-> FALSE]
  ELSE [status |-> "ok", error |-> "", rows |-> EnforceCap(self, resp.rows),
        symbol |-> resp.symbol]

\* get_list_of_screened_stocks(predef_query, count, size, max_results_cap):
\* the screener is built without the caller's max_results_cap.
GetListOfScreenedStocks(predef_query, count, max_results_cap, resp) ==
  LET screener == YfScreener(predef_query, count,
                             [kind |-> "int", value |-> DefaultCap])
      df == ScreenPredefined(screener, resp)
  IN  IF df.status = "error"
      THEN [status |-> "error", error |-> df.error, symbols |-> <<>>]
      ELSE IF df.rows = 0
      THEN [status |-> "ok", error |-> "", symbols |-> <<>>]
      ELSE IF ~df.symbol
      THEN [status |-> "error", error |-> "ValueError", symbols |-> <<>>]
      ELSE [status |-> "ok", error |-> "",
            symbols |-> [i \in 1..df.rows |-> i]]

\* The caps callers pass: non-positive, positive, a float, a text.
CapInputs ==
  {[kind |-> "int", value |-> v] : v \in {-1, 0, 3, 5, 15, 20}}
  \cup {[kind |-> "float", value |-> 27], [kind |-> "text", value |-> 0]}

ScreenResponses ==
  {[kind |-> "raise", rows |-> 0, symbol |-> FALSE]}
  \cup {[kind |-> "rows", rows |-> n, symbol |-> b] :
          n \in 0..MaxScreenRows, b \in BOOLEAN}

NoScreen ==
  [called |-> FALSE, predef_query |-> "", cap |-> [kind |-> "int", value |-> 0],
   rows |-> 0, status |-> "ok", error |-> "", symbols |-> <<>>]

DoScreen ==
  /\ ~screened.called
  /\ \E q \in {"", "day_gainers"}, cap \in CapInputs, resp \in ScreenResponses :
       LET r == GetListOfScreenedStocks(q, DefaultCount, cap, resp)
       IN  screened' = [called |-> TRUE, predef_query |-> q, cap |-> cap,
                        rows |-> resp.rows, status |-> r.status,
                        error |-> r.error, symbols |-> r.symbols]
  /\ UNCHANGED <<cleanVars, optVars, edgar, response, serverVars>>

\* -------------------------------------------------------- EdgarRetriever
NoneTicker == "None"

\* str.upper() on the tickers of the model.
Upper(t) ==
  CASE t = "aapl" -> "AAPL"
    [] t = "msft" -> "MSFT"
    [] OTHER -> t

\* The cik column of company_data, zero-filled to 10 digits.
Cik(t) ==
  CASE t = "AAPL" -> "0000320193"
    [] t = "MSFT" -> "0000789019"
    [] OTHER -> "None"

NoEdgarCall == [op |-> "none", arg |-> "", status |-> "ok", ret |-> "None"]

NoEdgar ==
  [alive |-> FALSE, company_data |-> {}, current_ticker |-> NoneTicker,
   current_cik |-> "None", last |-> NoEdgarCall]

\* The current_ticker setter.
SetCurrentTicker(self, ticker) ==
  IF ticker = NoneTicker
  THEN [self EXCEPT !.current_ticker = NoneTicker, !.current_cik = "None"]
  ELSE [self EXCEPT !.current_ticker = Upper(ticker),
                    !.current_cik = IF Upper(ticker) \in self.company_data
                                    THEN Cik(Upper(ticker))
                                    ELSE "None"]

\* EdgarRetriever(ticker=ticker), company_data being the table downloaded.
EdgarInit(company_data, ticker) ==
  LET self == [NoEdgar EXCEPT !.alive = TRUE, !.company_data = company_data]
  IN  IF ticker # NoneTicker THEN SetCurrentTicker(self, ticker) ELSE self

\* get_cik_from_ticker(ticker): a text is returned for an unknown ticker;
\* for a known one self.current_cik is assigned, and current_cik is a
\* property without a setter, so the assignment raises AttributeError.
GetCikFromTicker(self, ticker) ==
  IF Upper(ticker) \notin self.company_data
  THEN [self |-> self, status |-> "ok", ret |-> "No data found for ticker"]
  ELSE [self |-> self, status |-> "AttributeError", ret |-> "None"]

EdgarTickers == {"AAPL", "aapl", "MSFT", "msft", "ZZZZ"}

CompanyTables == {{"AAPL", "MSFT"}, {"AAPL"}, {"MSFT"}, {}}

DoSetCurrentTicker ==
  /\ edgar.alive
  /\ \E t \in EdgarTickers \cup {NoneTicker} :
       edgar' = [SetCurrentTicker(edgar, t) EXCEPT
                   !.last = [op |-> "current_ticker", arg |-> t,
                             status |-> "ok", ret |-> "None"]]
  /\ UNCHANGED <<cleanVars, optVars, screened, response, serverVars>>

DoGetCikFromTicker ==
  /\ edgar.alive
  /\ \E t \in EdgarTickers :
       LET r == GetCikFromTicker(edgar, t)
       IN  edgar' = [r.self EXCEPT
                       !.last = [op |-> "get_cik_from_ticker", arg |-> t,
                                 status |-> r.status, ret |-> r.ret]]
  /\ UNCHANGED <<cleanVars, optVars, screened, response, serverVars>>

\* ------------------------------------------- POST /api/portfolio/optimize
\* The body of a request; "" is a field left out, 0 a portfolio_value left
\* out, and body is "null" when the JSON document is null.
NoRequest ==
  [body |-> "none", tickers |-> <<>>, period |-> "", holding_period |-> "",
   method |-> "", returns_type |-> "", cov_type |-> "", portfolio_value |-> 0]

\* The response: the status code, the stage of the handler that returned,
\* the names of the fields of the body and the values of some.
NoResponse ==
  [http |-> 0, stage |-> "none", error |-> "", fields |-> {},
   request |-> NoRequest, cleaning |-> "", weights |-> <<>>,
   used_tickers |-> <<>>, removed_tickers |-> <<>>, allocation |-> <<>>,
   risk_free_rate |-> RateNone]

Respond(req, http, stage, error, fields) ==
  [NoResponse EXCEPT !.http = http, !.stage = stage, !.error = error,
                     !.fields = fields, !.request = req]

UsedTickersRequested(clean, req) == req.tickers

\* "used_tickers": list(clean_price_data.columns)
UsedTickers(clean, req) == clean.columns

\* A mapping over column positions as the mapping over tickers it is.
ByTicker(f, columns) ==
  [t \in {columns[i] : i \in DOMAIN f} |->
     f[CHOOSE i \in DOMAIN f : columns[i] = t]]

\* get_latest_prices: the last price of each column.
LatestPrices(clean) ==
  [i \in 1..Len(clean.columns) |->
     LET c == clean.columns[i]
         last == CHOOSE r \in 1..clean.nrows :
                   /\ clean.data[c][r] # NaN
                   /\ \A q \in (r + 1)..clean.nrows : clean.data[c][q] = NaN
     IN  clean.data[c][last]]

\* What the solver can do with a problem of n assets.
RequestProblems(n) ==
  {[kind |-> "weights", exc |-> "", w |-> w] :
     w \in {v \in {<<100000>>, <<20040, 79960>>, <<5, 99995>>} : Len(v) = n}}
  \cup SolverFailures

\* The handler from the solved weights on: the result, and the allocation
\* when portfolio_value is given.
OptimizeResult(req, self, clean, removed, p) ==
  LET base ==
        [Respond(req, 200, "done", "",
                 {"performance", "weights", "risk_free_rate",
                  "requested_tickers", "used_tickers", "removed_tickers"})
           EXCEPT !.weights = ByTicker(p.solve.third, clean.columns),
                  !.used_tickers = UsedTickers(clean, req),
                  !.removed_tickers = removed,
                  !.risk_free_rate = GetRfRate(self).ret]
  IN  IF req.portfolio_value = 0
      THEN {base}
      ELSE {LET a == GetAllocation(self, p.solve.second, req.portfolio_value,
                                   LatestPrices(clean), aenv)
            IN  IF a.status = "error"
                THEN Respond(req, 500, "allocation", a.error, {"error"})
                ELSE [base EXCEPT
                        !.fields = @ \cup {"allocation"},
                        !.allocation = ByTicker(a.allocation.shares,
                                                clean.columns)] :
              aenv \in LpOutcomes(p.solve.second, LatestPrices(clean),
                                  req.portfolio_value)}

\* optimize_portfolio: the responses a request can get, df being the table
\* the price provider returns, fetch what the rate provider does, nan
\* whether an estimate holds a NaN; the solver and lp_portfolio do as they
\* may.
OptimizeRequest(req, df, fetch, nan) ==
  IF req.body = "null"
  THEN {Respond(req, 500, "body", "AttributeError", {"error"})}
  ELSE IF req.tickers = <<>>
  THEN {Respond(req, 400, "tickers", "tickers list is required", {"error"})}
  ELSE IF req.period = ""
  THEN {Respond(req, 400, "period", "period is required", {"error"})}
  ELSE IF req.holding_period = ""
  THEN {Respond(req, 400, "holding_period", "holding_period is required",
                {"error"})}
  ELSE
    LET vc == ValidateAndClean(df, req.tickers).out
    IN  IF vc.status = "error"
        THEN {[Respond(req, 400, "clean", "Invalid price data",
                       {"error", "details"}) EXCEPT !.cleaning = vc.error]}
        ELSE
          LET made == Construct(vc.table, req.holding_period, RateNone, fetch)
              self == made.self
              mu   == GetExpectedReturns(self, req.returns_type, TRUE)
              S    == GetCovarianceMatrix(self, req.cov_type, TRUE)
          IN  IF made.status = "error"
              THEN {Respond(req, 500, "optimizer", made.error, {"error"})}
              ELSE IF mu.status = "error"
              THEN {Respond(req, 500, "returns", mu.error, {"error"})}
              ELSE IF S.status = "error"
              THEN {Respond(req, 500, "covariance", S.error, {"error"})}
              ELSE IF nan
              THEN {[Respond(req, 500, "nan",
                             "Computed returns or covariance contain NaNs",
                             {"error", "removed_tickers"})
                       EXCEPT !.removed_tickers = vc.removed]}
              ELSE UNION
                {LET p == GetPerformance(self, "Series", req.method, TRUE, env)
                 IN  IF p.status = "error"
                     THEN {Respond(req, 500, "solve", p.error, {"error"})}
                     ELSE OptimizeResult(req, self, vc.table, vc.removed, p) :
                   env \in RequestProblems(Len(vc.table.columns))}

\* The requests: a well-formed one, and the same with one field changed.
GoodRequest ==
  [body |-> "object", tickers |-> <<"A", "B">>, period |-> "1y",
   holding_period |-> "1 Yr", method |-> "max_sharpe",
   returns_type |-> "mean", cov_type |-> "ledoit_wolf",
   portfolio_value |-> 0]

Requests ==
  {[GoodRequest EXCEPT !.body = "null"], [GoodRequest EXCEPT !.period = ""]}
  \cup {[GoodRequest EXCEPT !.tickers = t] :
          t \in {<<>>, <<"A", "B">>, <<"B", "C">>, <<"A", "A">>}}
  \cup {[GoodRequest EXCEPT !.holding_period = h] : h \in {"", "1y", "5 Yr"}}
  \cup {[GoodRequest EXCEPT !.method = m, !.portfolio_value = v] :
          m \in MethodInputs, v \in {-100, 0, 7}}
  \cup {[GoodRequest EXCEPT !.returns_type = t] : t \in ReturnsTypeInputs}
  \cup {[GoodRequest EXCEPT !.cov_type = t] : t \in CovTypeInputs}

\* The tables the price provider returns for them: none, one without rows,
\* one of a single day, and the tables of 4 days over A and B.
RequestFrames ==
  {NoneObj} \cup Frames(0, {}) \cup Frames(1, {"A"}) \cup Frames(4, {"A", "B"})

DoOptimizeRequest ==
  /\ response = NoResponse
  /\ \E req \in Requests, df \in RequestFrames,
        fetch \in {f \in ProviderOutcomes : f.kind \in {"raise", "value"}},
        nan \in BOOLEAN :
       response' \in OptimizeRequest(req, df, fetch, nan)
  /\ UNCHANGED <<cleanVars, optVars, screened, edgar, serverVars>>

\* ---------------------------------------------------- concurrent requests
\* The development server handles each request in a thread of its own; the
\* handlers below are the threads, a step being what a thread does between
\* two points where the other can run.
Handlers == {1, 2}

\* ------------------------------------ POST /api/portfolio/efficient-frontier
FrontierSeed == 42
MaxPortfolios == 2

\* A handler of efficient_frontier: its position, its locals (the number n
\* of cleaned columns, num_portfolios, its optimizer), the points it has
\* appended to results, each named by the seed and the place in the
\* generator's stream its n numbers came from, and its response.
NoFrontier ==
  [pc |-> "idle", n |-> 0, num_portfolios |-> 0, optimizer |-> NoOptimizer,
   results |-> <<>>, http |-> 0, risk_free_rate |-> RateNone,
   weights |-> <<>>]

\* Tables that cleaning returns as they are: 4 days of prices for A, or for
\* A and B.
FrontierFrames ==
  {f \in Frames(4, {"A"}) \cup Frames(4, {"A", "B"}) :
     LET vc == ValidateAndClean(f, f.columns).out
     IN  vc.status = "ok" /\ vc.table = f}

\* Lines 1142-1197: the request is read, the prices fetched and cleaned,
\* the handler's own optimizer built on them and the estimates made.
FrontierReceive(i) ==
  /\ procs[i].pc = "idle"
  /\ \E df \in FrontierFrames, num \in 1..MaxPortfolios, nan \in BOOLEAN,
        fetch \in {f \in ProviderOutcomes : f.kind \in {"raise", "None"}} :
       LET vc == ValidateAndClean(df, df.columns).out
           made == Construct(vc.table, "1 Yr", RateNone, fetch)
       IN  procs' = [procs EXCEPT ![i] =
             [@ EXCEPT !.pc = IF nan THEN "done" ELSE "seed",
                       !.http = IF nan THEN 500 ELSE 0,
                       !.n = Len(vc.table.columns),
                       !.num_portfolios = num,
                       !.optimizer = made.self]]
  /\ UNCHANGED <<cleanVars, optVars, screened, edgar, response, np_random,
                 clock, figures, charts>>

\* Line 1200: np.random.seed(42) restarts the process's generator.
FrontierReseed(i) ==
  /\ procs[i].pc = "seed"
  /\ np_random' = [seed |-> FrontierSeed, pos |-> 0]
  /\ procs' = [procs EXCEPT ![i].pc = "draw"]
  /\ UNCHANGED <<cleanVars, optVars, screened, edgar, response, clock,
                 figures, charts>>

\* Lines 1202-1217: one turn of the loop; np.random.random(n) takes the
\* next n numbers of the process's generator.
FrontierDraw(i) ==
  /\ procs[i].pc = "draw"
  /\ Len(procs[i].results) < procs[i].num_portfolios
  /\ procs' = [procs EXCEPT ![i].results =
                 Append(@, [seed |-> np_random.seed, at |-> np_random.pos])]
  /\ np_random' = [np_random EXCEPT !.pos = @ + procs[i].n]
  /\ UNCHANGED <<cleanVars, optVars, screened, edgar, response, clock,
                 figures, charts>>

\* Lines 1220-1234: the optimal portfolio of the handler's own optimizer,
\* and the response.
FrontierRespond(i) ==
  /\ procs[i].pc = "draw"
  /\ Len(procs[i].results) = procs[i].num_portfolios
  /\ \E env \in RequestProblems(procs[i].n) :
       LET p == GetPerformance(procs[i].optimizer, "Series", "max_sharpe",
                               TRUE, env)
       IN  procs' = [procs EXCEPT ![i] =
             [@ EXCEPT !.pc = "done",
                       !.http = IF p.status = "error" THEN 500 ELSE 200,
                       !.risk_free_rate = GetRfRate(procs[i].optimizer).ret,
                       !.weights = IF p.status = "error" THEN <<>>
                                   ELSE p.solve.third]]
  /\ UNCHANGED <<cleanVars, optVars, screened, edgar, response, np_random,
                 clock, figures, charts>>

\* -------------------------------------------- POST /api/portfolio/plot-returns
MaxClock == 1

PlotSeries == {"Portfolio", "S&P 500"}

\* A handler of plot_portfolio_returns: its position, the series it has
\* still to plot and its local filename (the second it was named in).
NoPlot == [pc |-> "idle", todo |-> {}, filename |-> -1, url |-> -1]

\* pyplot keeps the process's figures in one ordered list, the current
\* figure being the last; a figure is the set of lines drawn on it, a line
\* the handler whose data it shows and the series.
Gcf(figs) == IF figs = <<>> THEN <<{}>> ELSE figs

\* Line 1054: plt.figure() opens a figure and makes it the current one.
PlotFigure(i) ==
  /\ procs[i].pc = "idle"
  /\ figures' = Append(figures, {})
  /\ procs' = [procs EXCEPT ![i] = [@ EXCEPT !.pc = "plot", !.todo = PlotSeries]]
  /\ UNCHANGED <<cleanVars, optVars, screened, edgar, response, np_random,
                 clock, charts>>

\* Lines 1055-1066: plt.plot() draws a line on the current figure.
PlotLine(i) ==
  /\ procs[i].pc = "plot"
  /\ procs[i].todo # {}
  /\ LET series == IF "Portfolio" \in procs[i].todo THEN "Portfolio"
                   ELSE "S&P 500"
         figs == Gcf(figures)
     IN  /\ figures' = [figs EXCEPT ![Len(figs)] = @ \cup {<<i, series>>}]
         /\ procs' = [procs EXCEPT ![i].todo = @ \ {series}]
  /\ UNCHANGED <<cleanVars, optVars, screened, edgar, response, np_random,
                 clock, charts>>

\* Line 1076: the filename is the current second.
PlotName(i) ==
  /\ procs[i].pc = "plot"
  /\ procs[i].todo = {}
  /\ procs' = [procs EXCEPT ![i] = [@ EXCEPT !.pc = "save", !.filename = clock]]
  /\ UNCHANGED <<cleanVars, optVars, screened, edgar, response, np_random,
                 clock, figures, charts>>

\* Line 1080: plt.savefig() writes the current figure to the file,
\* replacing a file of that name.
PlotSavefig(i) ==
  /\ procs[i].pc = "save"
  /\ LET figs == Gcf(figures)
     IN  /\ figures' = figs
         /\ charts' = {c \in charts : c.name # procs[i].filename}
                      \cup {[name |-> procs[i].filename,
                             content |-> figs[Len(figs)]]}
  /\ procs' = [procs EXCEPT ![i].pc = "close"]
  /\ UNCHANGED <<cleanVars, optVars, screened, edgar, response, np_random,
                 clock>>

\* Lines 1081-1124: plt.close() closes the current figure; the response
\* carries the URL of the file.
PlotClose(i) ==
  /\ procs[i].pc = "close"
  /\ figures' = IF figures = <<>> THEN <<>>
                ELSE SubSeq(figures, 1, Len(figures) - 1)
  /\ procs' = [procs EXCEPT ![i] = [@ EXCEPT !.pc = "done",
                                           !.url = procs[i].filename]]
  /\ UNCHANGED <<cleanVars, optVars, screened, edgar, response, np_random,
                 clock, charts>>

\* A second passes.
Tick ==
  /\ clock < MaxClock
  /\ clock' = clock + 1
  /\ UNCHANGED <<cleanVars, optVars, screened, edgar, response, procs,
                 np_random, figures, charts>>

\* -------------------------------------------------------------- idle parts
\* numpy's global generator: not seeded by the program, nothing drawn.
NoRandom == [seed |-> -1, pos |-> 0]

ExtIdle ==
  /\ screened = NoScreen
  /\ edgar = NoEdgar
  /\ response = NoResponse
  /\ procs = <<>>
  /\ np_random = NoRandom
  /\ clock = 0
  /\ figures = <<>>
  /\ charts = {}

\* The cleaning run makes no optimizer.
OptIdle == optimizer = NoOptimizer /\ fetches = 0 /\ last_call = NoCall

\* An optimizer's life: construction, then any sequence of its methods.
InitOpt ==
  /\ price_df = NoneObj
  /\ requested_tickers = <<>>
  /\ pc = "optimizer"
  /\ result = NoResult
  /\ result2 = NoResult
  /\ OptIdle
  /\ ExtIdle

NextOpt ==
  \/ DoConstruct
  \/ DoSetRfRate
  \/ DoSetHoldingPeriod
  \/ DoGetRfRate
  \/ DoGetExpectedReturns
  \/ DoGetCovarianceMatrix
  \/ DoGetWeights({"Series"}, TwoOutcomes)
  \/ DoGetPerformance(TwoOutcomes)
  \/ DoGetAllocation({ExampleProblem})

SpecOpt == InitOpt /\ [][NextOpt]_vars

\* The solving call of one request: an optimizer built on the cleaned
\* table, then get_weights, get_performance or the endpoint's pipeline.
InitSolve ==
  /\ price_df = NoneObj
  /\ requested_tickers = <<>>
  /\ pc = "solve"
  /\ result = NoResult
  /\ result2 = NoResult
  /\ \E f \in ProviderOutcomes :
       optimizer = Construct("prices", "1 Yr", RateNone, f).self
  /\ fetches = 1
  /\ last_call = NoCall
  /\ ExtIdle

\* Each request builds its optimizer and solves once.
Fresh == last_call = NoCall

NextSolve ==
  \/ Fresh /\ DoGetWeights(MuKinds, SolverOutcomes)
  \/ Fresh /\ DoGetPerformance(SolverOutcomes)
  \/ Fresh /\ DoOptimizePortfolio

SpecSolve == InitSolve /\ [][NextSolve]_vars

\* The allocation of one request, on the optimizer it built.
NextAlloc == Fresh /\ DoGetAllocation(AllocationProblems)

SpecAlloc == InitSolve /\ [][NextAlloc]_vars

\* Nothing but the part named is in use.
CleanIdle ==
  /\ price_df = NoneObj
  /\ requested_tickers = <<>>
  /\ pc = "idle"
  /\ result = NoResult
  /\ result2 = NoResult

\* Before a call of get_list_of_screened_stocks, or before a request.
InitScreen ==
  /\ CleanIdle
  /\ OptIdle
  /\ ExtIdle

SpecScreen == InitScreen /\ [][DoScreen]_vars

\* One request to /api/portfolio/optimize.
SpecRequest == InitScreen /\ [][DoOptimizeRequest]_vars

\* Two requests to /api/portfolio/efficient-frontier, interleaved.
InitFrontier ==
  /\ CleanIdle
  /\ OptIdle
  /\ screened = NoScreen
  /\ edgar = NoEdgar
  /\ response = NoResponse
  /\ procs = [i \in Handlers |-> NoFrontier]
  /\ np_random = NoRandom
  /\ clock = 0
  /\ figures = <<>>
  /\ charts = {}

NextFrontier ==
  \E i \in Handlers :
    \/ FrontierReceive(i)
    \/ FrontierReseed(i)
    \/ FrontierDraw(i)
    \/ FrontierRespond(i)

SpecFrontier == InitFrontier /\ [][NextFrontier]_vars

\* Two requests to /api/portfolio/plot-returns, interleaved.
InitPlot ==
  /\ CleanIdle
  /\ OptIdle
  /\ screened = NoScreen
  /\ edgar = NoEdgar
  /\ response = NoResponse
  /\ procs = [i \in Handlers |-> NoPlot]
  /\ np_random = NoRandom
  /\ clock = 0
  /\ figures = <<>>
  /\ charts = {}

NextPlot ==
  \/ Tick
  \/ \E i \in Handlers :
       \/ PlotFigure(i)
       \/ PlotLine(i)
       \/ PlotName(i)
       \/ PlotSavefig(i)
       \/ PlotClose(i)

SpecPlot == InitPlot /\ [][NextPlot]_vars

\* An EdgarRetriever, from its construction on.
InitEdgar ==
  /\ CleanIdle
  /\ OptIdle
  /\ screened = NoScreen
  /\ response = NoResponse
  /\ procs = <<>>
  /\ np_random = NoRandom
  /\ clock = 0
  /\ figures = <<>>
  /\ charts = {}
  /\ \E c \in CompanyTables, t \in EdgarTickers \cup {NoneTicker} :
       edgar = EdgarInit(c, t)

NextEdgar == DoSetCurrentTicker \/ DoGetCikFromTicker

SpecEdgar == InitEdgar /\ [][NextEdgar]_vars

Init ==
  /\ price_df \in AllFrames \cup {NoneObj, OtherObj}
  /\ requested_tickers \in RequestLists
  /\ pc = "start"
  /\ result = NoResult
  /\ result2 = NoResult
  /\ OptIdle
  /\ ExtIdle

\* clean_price_data, removed = _validate_and_clean_prices(price_data, tickers)
Clean ==
  /\ pc = "start"
  /\ LET r == ValidateAndClean(price_df, requested_tickers)
     IN  /\ result' = r.out
         /\ price_df' = r.df_after
         /\ requested_tickers' = r.req_after
  /\ pc' = "cleaned"
  /\ UNCHANGED <<result2, optVars, extVars>>

\* _validate_and_clean_prices(clean_price_data, tickers): the returned table
\* cleaned again with the same requested list.
Reclean ==
  /\ pc = "cleaned"
  /\ result.status = "ok"
  /\ LET r == ValidateAndClean(result.table, requested_tickers)
     IN  /\ result2' = r.out
         /\ result' = [result EXCEPT !.table = r.df_after]
         /\ requested_tickers' = r.req_after
  /\ pc' = "recleaned"
  /\ UNCHANGED <<price_df, optVars, extVars>>

Next == Clean \/ Reclean

Spec == Init /\ [][Next]_vars

\* ----------------------------------------------------------------- claims
Called == pc # "start"

\* The discovery list of the first call.
Discovered == RemovedLocal(DropnaCols(price_df).ret, requested_tickers)

Succeeded == Called /\ result.status = "ok"

InputIsFrame == price_df.kind = "DataFrame"

InputColumns == SetOf(price_df.columns)

OutputColumns == SetOf(result.table.columns)

\* max(2, floor(0.25 * row_count)) as the specification words it.
ClaimedMinObs(n) == IF n \div 4 >= 2 THEN n \div 4 ELSE 2

\* A column that passes every test of the cleaning policy.
GoodColumn(df, c) ==
  Count(df, c) >= ClaimedMinObs(df.nrows) /\ NUnique(df, c) >= 2

StrictlyAscending(s) ==
  \A i, j \in 1..Len(s) : i < j => Rank(s[i]) < Rank(s[j])

\* C1 (as amended): on success removed_tickers holds each removed symbol
\* once, in ascending sorted order: the requested tickers that are not
\* columns of the returned table, and the columns dropped for too few
\* observations or for being constant.
C1_RemovedSortedDistinct ==
  Succeeded =>
    /\ StrictlyAscending(result.removed)
    /\ SetOf(result.removed) =
         (SetOf(requested_tickers) \ OutputColumns)
         \cup {c \in InputColumns \ OutputColumns : ~AllNaN(price_df, c)}

\* C1 witness: a successful call whose discovery list had a repeated symbol
\* and a different first element than the returned list.
C1_Witness ==
  /\ Succeeded
  /\ Len(result.removed) = 2
  /\ Len(Discovered) = 3
  /\ Discovered[1] # result.removed[1]

\* C1 as stated: on success removed_tickers is the discovery-order list
\* (missing requested tickers, then low-observation columns, then constant
\* columns) with duplicates removed.
C1_DiscoveryOrder ==
  Succeeded =>
    result.removed = Dedupe(Discovered)

\* C2 (as amended): cleaning the returned table again with the same
\* requested list succeeds and returns the same table; its removed_tickers
\* is the sorted list of the requested tickers that are not columns of that
\* table (empty exactly when every requested ticker survived).
C2_RecleanSameTable ==
  pc = "recleaned" =>
    /\ result2.status = "ok"
    /\ result2.table = result.table
    /\ result2.removed =
         SortedList(SetOf(requested_tickers) \ SetOf(result.table.columns))

\* C2 witness: a second cleaning after a first one that removed columns,
\* reporting a non-empty list different from the first call's.
C2_Witness ==
  /\ pc = "recleaned"
  /\ result.table.columns # price_df.columns
  /\ result2.removed # <<>>
  /\ result2.removed # result.removed

\* C2 as stated: the second cleaning returns the same table and an empty
\* removed_tickers list.
C2_RecleanEmptyRemoved ==
  pc = "recleaned" =>
    /\ result2.status = "ok"
    /\ result2.table = result.table
    /\ result2.removed = <<>>

\* C3 (as amended): on success every all-NaN column of the input is absent
\* from the returned table and is reported in removed_tickers if it is one
\* of the requested tickers, and no column that passes the observation and
\* variance tests is removed along with it.
C3_AllNaNColumnRemoved ==
  Succeeded =>
    \A c \in InputColumns :
      /\ AllNaN(price_df, c) =>
           /\ c \notin OutputColumns
           /\ (c \in SetOf(requested_tickers) => InList(c, result.removed))
      /\ GoodColumn(price_df, c) => c \in OutputColumns

\* C3 witness: a successful call on a table with a requested all-NaN column
\* and a surviving column that has missing cells of its own.
C3_Witness ==
  /\ Succeeded
  /\ \E c \in InputColumns :
       AllNaN(price_df, c) /\ InList(c, requested_tickers)
  /\ \E c \in OutputColumns : Count(price_df, c) < price_df.nrows

\* C3 as stated: every all-NaN column is removed and its ticker appears in
\* removed_tickers.
C3_AllNaNColumnReported ==
  Succeeded =>
    \A c \in InputColumns :
      AllNaN(price_df, c) =>
        c \notin OutputColumns /\ InList(c, result.removed)

\* C4 (as amended): a table with exactly one row and at least one column
\* fails with the insufficient-history error; a table with no rows fails
\* with the empty-data error instead.
C4_OneRowInsufficient ==
  (Called /\ InputIsFrame) =>
    /\ (price_df.nrows = 1 /\ Len(price_df.columns) >= 1) =>
         (result.status = "error"
          /\ result.error = "insufficient history rows")
    /\ price_df.nrows = 0 =>
         (result.status = "error" /\ result.error = "price data is empty")

\* C4 witness: a one-row table was rejected for insufficient history, the
\* message naming a requested ticker as removed.
C4_Witness ==
  /\ Called /\ InputIsFrame
  /\ price_df.nrows = 1
  /\ result.error = "insufficient history rows"
  /\ result.removed # <<>>

\* C4 as stated: every table with fewer than 2 rows, 0 rows included, fails
\* with the insufficient-history error.
C4_FewRowsInsufficient ==
  (Called /\ InputIsFrame /\ price_df.nrows < 2) =>
    (result.status = "error" /\ result.error = "insufficient history rows")

\* C5: an absent table or one with zero rows fails with the empty-data
\* error, raised before any column is dropped: no table is returned and
\* the error carries no removed list.
C5_EmptyDataFirst ==
  Called =>
    /\ price_df.kind = "None" =>
         (result.status = "error" /\ result.error = "price data is None"
          /\ result.removed = <<>> /\ result.table = NoneObj)
    /\ (InputIsFrame /\ price_df.nrows = 0) =>
         (result.status = "error" /\ result.error = "price data is empty"
          /\ result.removed = <<>> /\ result.table = NoneObj)

\* C5 witness: a zero-row table that has columns, asked for with a
\* non-empty ticker list, was rejected as empty.
C5_Witness ==
  /\ Called /\ InputIsFrame
  /\ price_df.nrows = 0
  /\ Len(price_df.columns) >= 1
  /\ requested_tickers # <<>>
  /\ result.error = "price data is empty"

\* The scenario of the specification: A and B priced on all 10 days, C on
\* one day only.
ScenarioFrame ==
  [kind |-> "DataFrame", columns |-> <<"A", "B", "C">>, nrows |-> 10,
   data |-> [c \in {"A", "B", "C"} |->
               IF c = "C" THEN Column(10, 1, FALSE) ELSE Column(10, 10, TRUE)]]

\* C6: with min_obs = max(2, floor(0.25 * rows)), every column that is not
\* all-NaN and has fewer than min_obs non-missing values is dropped and
\* reported as removed, and every column with at least min_obs of them is
\* kept unless it is constant; in the 10-day scenario C is removed, A and B
\* are kept and removed_tickers is [C].
C6_LowObservationDropped ==
  /\ (Called /\ InputIsFrame
      /\ result.error \in {"", "no valid tickers left after cleaning"}) =>
       \A c \in InputColumns :
         (~AllNaN(price_df, c)
          /\ Count(price_df, c) < ClaimedMinObs(price_df.nrows)) =>
            InList(c, result.removed)
  /\ Succeeded =>
       \A c \in InputColumns :
         /\ Count(price_df, c) < ClaimedMinObs(price_df.nrows) =>
              c \notin OutputColumns
         /\ GoodColumn(price_df, c) => c \in OutputColumns
  /\ (Called /\ price_df = ScenarioFrame
      /\ requested_tickers = <<"A", "B", "C">>) =>
       /\ result.status = "ok"
       /\ result.table.columns = <<"A", "B">>
       /\ result.removed = <<"C">>

\* C6 witness: a successful call on a table long enough for the 25% rule to
\* ask for more than 2 observations, dropping a varied column that has
\* exactly 2.
C6_Witness ==
  /\ Succeeded
  /\ ClaimedMinObs(price_df.nrows) > 2
  /\ \E c \in InputColumns \ OutputColumns :
       /\ Count(price_df, c) = 2
       /\ NUnique(price_df, c) = 2
       /\ InList(c, result.removed)

\* C7: every column that reaches the zero-variance step with at most one
\* distinct non-missing value is dropped and reported as removed, and no
\* column with two or more distinct values is dropped by that step.
C7_ConstantDropped ==
  Succeeded =>
    \A c \in InputColumns :
      Count(price_df, c) >= ClaimedMinObs(price_df.nrows) =>
        /\ NUnique(price_df, c) <= 1 =>
             (c \notin OutputColumns /\ InList(c, result.removed))
        /\ NUnique(price_df, c) >= 2 => c \in OutputColumns

\* C7 witness: a successful call that dropped a fully observed constant
\* column nobody requested, and reported it.
C7_Witness ==
  /\ Succeeded
  /\ \E c \in InputColumns \ SetOf(requested_tickers) :
       /\ Count(price_df, c) = price_df.nrows
       /\ NUnique(price_df, c) = 1
       /\ InList(c, result.removed)

\* C8 (as amended): if the table has at least 2 rows and at least one
\* column, and no column survives the three drops, the call fails with the
\* no-valid-tickers error and returns no table.
C8_NoValidTickers ==
  (Called /\ InputIsFrame /\ price_df.nrows >= 2
   /\ Len(price_df.columns) >= 1
   /\ \A c \in InputColumns : ~GoodColumn(price_df, c)) =>
    /\ result.status = "error"
    /\ result.error = "no valid tickers left after cleaning"
    /\ result.table = NoneObj

\* C8 witness: a table of several rows whose columns fell to three
\* different drops, rejected with the no-valid-tickers error.
C8_Witness ==
  /\ Called
  /\ result.error = "no valid tickers left after cleaning"
  /\ \E c \in InputColumns : AllNaN(price_df, c)
  /\ \E c \in InputColumns :
       ~AllNaN(price_df, c) /\ Count(price_df, c) < ClaimedMinObs(price_df.nrows)
  /\ \E c \in InputColumns :
       Count(price_df, c) >= ClaimedMinObs(price_df.nrows)
       /\ NUnique(price_df, c) = 1

\* C8 as stated: whenever the table has at least 2 rows and no column
\* survives the drops, the call fails with the no-valid-tickers error.
C8_NoSurvivorNoValidTickers ==
  (Called /\ InputIsFrame /\ price_df.nrows >= 2
   /\ \A c \in InputColumns : ~GoodColumn(price_df, c)) =>
    /\ result.status = "error"
    /\ result.error = "no valid tickers left after cleaning"

\* C9: a successful call returns a table of at least 2 rows and 1 column
\* whose every column has at least max(2, floor(0.25 * rows)) non-missing
\* values and at least 2 distinct ones; the call succeeds exactly when the
\* input has 2 rows and such a column, and otherwise fails with no table.
C9_CleanedTableInvariant ==
  Called =>
    /\ result.status = "ok" <=>
         (InputIsFrame /\ price_df.nrows >= 2
          /\ \E c \in InputColumns : GoodColumn(price_df, c))
    /\ result.status = "ok" =>
         /\ result.table.kind = "DataFrame"
         /\ result.table.nrows >= 2
         /\ Len(result.table.columns) >= 1
         /\ \A c \in OutputColumns : GoodColumn(result.table, c)
    /\ result.status # "ok" =>
         (result.status = "error" /\ result.table = NoneObj)

\* C9 witness: a successful call that dropped a column and kept one with
\* exactly the minimum number of observations, some of its cells missing.
C9_Witness ==
  /\ Succeeded
  /\ result.table.columns # price_df.columns
  /\ \E c \in OutputColumns :
       /\ Count(result.table, c) = ClaimedMinObs(result.table.nrows)
       /\ Count(result.table, c) < result.table.nrows

\* C10: no call changes its arguments: the caller's table (the raw table in
\* the first call, the returned table in the second) and the caller's
\* requested-ticker list are the same after the call as before, whether it
\* returns or raises.
C10_InputsNotMutated ==
  [][/\ price_df' = price_df
     /\ requested_tickers' = requested_tickers
     /\ pc = "cleaned" => result'.table = result.table]_vars

\* C10 witness: a call returned a table different from the one it was
\* given.
C10_Witness ==
  /\ Succeeded
  /\ result.table # price_df
  /\ result.removed # <<>>


\* ------------------------------------------------- optimizer: the claims
InvalidReturnsType == "Invalid type. Use 'mean', 'capm', or 'ema'."

InvalidCovType ==
  "Invalid type. Use 'ledoit_wolf', 'semicovariance', or 'exponential'."

ReadOnlyOps ==
  {"get_rf_rate", "get_expected_returns", "get_covariance_matrix",
   "get_weights", "get_performance", "get_allocation"}

\* The last call reached get_weights and it returned.
Solved == last_call.solve.path # "none" /\ last_call.status \in {"ok", "200"}

\* The last call reached get_weights and it raised.
SolveFailed ==
  last_call.solve.path # "none" /\ last_call.status \in {"error", "500"}

\* The nearest multiple of 0.001 (of two equally near, the even one).
ClaimedRound(x) ==
  100 * (CHOOSE m \in {x \div 100, x \div 100 + 1} :
           \/ 2 * Abs(x - 100 * m) < 100
           \/ 2 * Abs(x - 100 * m) = 100 /\ m % 2 = 0)

\* Entries under 1e-4 set to zero, the others rounded to 3 decimals.
ClaimedCleaned(w) ==
  [i \in 1..Len(w) |-> IF w[i] < 10 THEN 0 ELSE ClaimedRound(w[i])]

\* A mapping without its exact zeros.
WithoutZeros(w) == [i \in {j \in DOMAIN w : w[j] # 0} |-> w[i]]

RECURSIVE SumOver(_, _)
SumOver(f, D) ==
  IF D = {} THEN 0
  ELSE LET i == CHOOSE j \in D : TRUE IN f[i] + SumOver(f, D \ {i})

\* How far the third element's sum is from 1.0.
SumError == Abs(SumOver(last_call.solve.third, DOMAIN last_call.solve.third)
                - WeightOne)

ClaimedTolerance == WeightOne \div 1000

\* C11: when the provider raises, or returns None or NaN, constructing the
\* optimizer and set_holding_period still succeed and leave rf_rate at
\* 0.02, and get_rf_rate returns the optimizer's rf_rate.
C11_FetchFailureFallsBack ==
  /\ (/\ last_call.op \in {"__init__", "set_holding_period"}
      /\ last_call.fetch.kind \in {"raise", "None", "NaN"})
       => /\ last_call.status = "ok"
          /\ optimizer.alive
          /\ optimizer.rf_rate = DefaultRate
  /\ last_call.op = "get_rf_rate"
       => last_call.status = "ok" /\ last_call.ret = optimizer.rf_rate

\* set_holding_period on an optimizer, the provider returning NaN: the
\* second fetch of the run, and the rate is 0.02.
C11_Witness ==
  /\ last_call.op = "set_holding_period"
  /\ last_call.fetch.kind = "NaN"
  /\ last_call.status = "ok"
  /\ fetches = 2
  /\ optimizer.rf_rate = DefaultRate

\* C12: the provider is called only by a construction without a manual
\* rf_rate and by a set_holding_period that is accepted, once each; a
\* construction with a manual rf_rate makes no fetch and keeps that rate;
\* set_rf_rate sets the rate without a fetch; rf_rate changes in no other
\* call, get_rf_rate returns it, and get_rf_rate, get_expected_returns,
\* get_covariance_matrix, get_weights, get_performance and get_allocation
\* neither fetch nor change the optimizer.
C12_FetchOnlyAtConstructionOrPeriodChange ==
  [][/\ fetches' # fetches
          => /\ fetches' = fetches + 1
             /\ last_call'.op \in {"__init__", "set_holding_period"}
             /\ last_call'.status = "ok"
             /\ last_call'.op = "__init__" => last_call'.rate = RateNone
     /\ (/\ last_call'.op = "__init__"
         /\ last_call'.rate # RateNone
         /\ last_call'.status = "ok")
          => /\ fetches' = fetches
             /\ last_call'.fetch = NoFetch
             /\ optimizer'.rf_rate = last_call'.rate
     /\ last_call'.op = "set_rf_rate"
          => fetches' = fetches /\ optimizer'.rf_rate = last_call'.rate
     /\ optimizer'.rf_rate # optimizer.rf_rate
          => last_call'.op \in {"__init__", "set_rf_rate",
                                "set_holding_period"}
     /\ last_call'.op = "get_rf_rate"
          => last_call'.ret = optimizer.rf_rate
     /\ last_call'.op \in ReadOnlyOps
          => fetches' = fetches /\ optimizer' = optimizer]_vars

\* An optimizer built with a fetch, its rate overridden to 0.01: that is
\* what get_rf_rate returns, and the provider was called once.
C12_Witness ==
  /\ last_call.op = "get_rf_rate"
  /\ last_call.ret = 100
  /\ optimizer.rf_rate = 100
  /\ fetches = 1

\* C13: get_expected_returns with a type other than mean, capm and ema, and
\* get_covariance_matrix with a type other than ledoit_wolf, semicovariance
\* and exponential, raise the invalid-type error, run no estimator and
\* leave the optimizer as it was.
C13_InvalidTypeRejected ==
  [][/\ (/\ last_call'.op = "get_expected_returns"
         /\ last_call'.arg \notin {"mean", "capm", "ema"})
          => /\ last_call'.status = "error"
             /\ last_call'.error = InvalidReturnsType
             /\ last_call'.estimator = "none"
             /\ optimizer' = optimizer
             /\ fetches' = fetches
     /\ (/\ last_call'.op = "get_covariance_matrix"
         /\ last_call'.arg \notin {"ledoit_wolf", "semicovariance",
                                   "exponential"})
          => /\ last_call'.status = "error"
             /\ last_call'.error = InvalidCovType
             /\ last_call'.estimator = "none"
             /\ optimizer' = optimizer
             /\ fetches' = fetches]_vars

\* get_expected_returns("bogus") on an optimizer whose rate was set by
\* hand: rejected, the optimizer still there.
C13_Witness ==
  /\ last_call.op = "get_expected_returns"
  /\ last_call.arg = "bogus"
  /\ last_call.status = "error"
  /\ last_call.estimator = "none"
  /\ optimizer.alive
  /\ optimizer.rf_rate = 100

\* C14: every method and cov_type value the /api/portfolio/optimize schema
\* lists is accepted by get_weights and get_covariance_matrix: a request
\* made of schema values never ends in the invalid-type or the
\* invalid-method error.
C14_SchemaValuesAccepted ==
  (/\ last_call.op = "optimize_portfolio"
   /\ last_call.arg \in SchemaMethods
   /\ last_call.returns_type \in SchemaReturnsTypes
   /\ last_call.cov_type \in SchemaCovTypes)
    => last_call.error \notin
         {InvalidReturnsType, InvalidCovType, "ValueError: Invalid method"}

\* C15: get_weights(round=True) returns as its second element the
\* clean_weights mapping (entries under 1e-4 zeroed, all rounded to 3
\* decimals, every ticker kept) and as its third that mapping without its
\* zeros; with round=False the second element is the solver's raw mapping
\* and the third is the raw mapping without its exact zeros.
C15_SecondIsCleanedWhenRounding ==
  Solved =>
    /\ last_call.solve.round
         => last_call.solve.second = ClaimedCleaned(last_call.solve.raw)
    /\ ~last_call.solve.round
         => last_call.solve.second = last_call.solve.raw
    /\ last_call.solve.third = WithoutZeros(last_call.solve.second)

\* get_weights(round=True) returned, and its second element is not the
\* solver's raw mapping.
C15_Witness ==
  /\ Solved
  /\ last_call.op = "get_weights"
  /\ last_call.solve.round
  /\ last_call.solve.second # last_call.solve.raw
  /\ last_call.solve.second = <<20000, 100, 79900>>

\* C15 as stated: with round=True the second element is the raw mapping.
C15_SecondIsRaw ==
  (Solved /\ last_call.solve.round)
    => last_call.solve.second = last_call.solve.raw

\* C16: with round=True the third element of get_weights is the raw
\* mapping with entries under 1e-4 zeroed, the rest rounded to 3 decimals
\* and the zeros removed, so each of its weights is positive and each of
\* its keys is a ticker of the raw mapping.
C16_CleanedWhenRounding ==
  (Solved /\ last_call.solve.round)
    => /\ last_call.solve.third =
            WithoutZeros(ClaimedCleaned(last_call.solve.raw))
       /\ \A i \in DOMAIN last_call.solve.third :
             /\ last_call.solve.third[i] > 0
             /\ i \in DOMAIN last_call.solve.raw

\* round=True on raw weights with one under the cutoff and one that rounds
\* up to 0.001: the first is gone from the third element, the second is
\* there as 0.001.
C16_Witness ==
  /\ Solved
  /\ last_call.solve.round
  /\ Len(last_call.solve.raw) = 3
  /\ last_call.solve.raw[1] = 5
  /\ last_call.solve.raw[2] = 60
  /\ DOMAIN last_call.solve.third = {2, 3}
  /\ last_call.solve.third[2] = 100

\* C16 as stated: whatever round is, the third element is the raw mapping
\* cut off, rounded and without zeros.
C16_CleanedAlways ==
  Solved => last_call.solve.third =
              WithoutZeros(ClaimedCleaned(last_call.solve.raw))

\* C17: for raw weights that are non-negative and sum to 1, the cleaned
\* weights of get_weights(round=True) sum to 1.0 within 0.0005 times the
\* number of assets, and within 1e-3 for up to 3 assets.
C17_SumWithinHalfStepPerAsset ==
  (Solved /\ last_call.solve.round)
    => /\ 2 * SumError <= ClaimedTolerance * Len(last_call.solve.raw)
       /\ Len(last_call.solve.raw) <= 3 => SumError <= ClaimedTolerance

\* Five assets, four at 0.2004: the cleaned weights sum to 0.998.
C17_Witness ==
  /\ Solved
  /\ last_call.solve.round
  /\ Len(last_call.solve.raw) = 5
  /\ Sum(last_call.solve.raw) = WeightOne
  /\ SumError = 2 * ClaimedTolerance

\* C17 as stated: the cleaned weights sum to 1.0 within 1e-3.
C17_SumWithinTolerance ==
  (Solved /\ last_call.solve.round) => SumError <= ClaimedTolerance

\* C18: for efficient_return and efficient_risk the target the caller gave
\* is the target the solver is called with, on every path.
C18_TargetReachesSolver ==
  (/\ last_call.solve.solver.fn \in {"efficient_return", "efficient_risk"}
   /\ last_call.target # RateNone)
    => last_call.solve.solver.target = last_call.target

\* C19: when the solve fails in get_weights no weights are returned, the
\* error is the solver's failure (or the unsupported-method error) and it
\* carries the diagnostics.
C19_FailureCarriesDiagnostics ==
  SolveFailed =>
    /\ last_call.solve.second = <<>>
    /\ last_call.solve.third = <<>>
    /\ last_call.error \in
         {"OptimizationError", "ValueError", "ValueError: Invalid method"}
    /\ last_call.solve.carried = DiagFields

\* C20: a get_weights solve has the L2 regularization objective with
\* coefficient 0.1 once when the method is not max_sharpe, and no added
\* objective when it is.
C20_L2ExceptMaxSharpe ==
  last_call.solve.path # "none" =>
    /\ Len(last_call.solve.objectives) <= 1
    /\ last_call.solve.method = "max_sharpe"
         <=> last_call.solve.objectives = <<>>
    /\ \A i \in DOMAIN last_call.solve.objectives :
         /\ last_call.solve.objectives[i].fn = "L2_reg"
         /\ last_call.solve.objectives[i].gamma = 1

\* min_volatility asked of the endpoint: solved with one L2 term.
C20_Witness ==
  /\ Solved
  /\ last_call.solve.method = "min_volatility"
  /\ last_call.op = "optimize_portfolio"
  /\ Len(last_call.solve.objectives) = 1


\* The ten holding-period labels.
TenLabels ==
  {"1 Mo", "3 Mo", "6 Mo", "1 Yr", "2 Yr", "3 Yr", "5 Yr", "7 Yr", "10 Yr",
   "30 Yr"}

\* The yfinance form of a label: 1 Mo is 1mo, 1 Yr is 1y, and so on.
ClaimedYfPeriod(hp) ==
  CASE hp = "1 Mo" -> "1mo"
    [] hp = "3 Mo" -> "3mo"
    [] hp = "6 Mo" -> "6mo"
    [] hp = "1 Yr" -> "1y"
    [] hp = "2 Yr" -> "2y"
    [] hp = "3 Yr" -> "3y"
    [] hp = "5 Yr" -> "5y"
    [] hp = "7 Yr" -> "7y"
    [] hp = "10 Yr" -> "10y"
    [] hp = "30 Yr" -> "30y"
    [] OTHER -> "?"

\* C25: the constructor and set_holding_period accept the ten labels and
\* reject every other label with an error, without a fetch; a rejected
\* constructor makes no optimizer and a rejected set_holding_period leaves
\* holding_period, period and rf_rate as they were.
C25_OtherLabelsRejectedBeforeFetch ==
  [][last_call'.op \in {"__init__", "set_holding_period"}
       => IF last_call'.arg \in TenLabels
          THEN /\ last_call'.status = "ok"
               /\ optimizer'.holding_period = last_call'.arg
          ELSE /\ last_call'.status = "error"
               /\ last_call'.fetch = NoFetch
               /\ fetches' = fetches
               /\ optimizer' = optimizer]_vars

\* set_holding_period("1y") on an optimizer at 5 Yr whose rate was set by
\* hand: rejected, and the optimizer is as it was.
C25_Witness ==
  /\ last_call.op = "set_holding_period"
  /\ last_call.arg = "1y"
  /\ last_call.status = "error"
  /\ optimizer.holding_period = "5 Yr"
  /\ optimizer.period = "5y"
  /\ optimizer.rf_rate = 100

\* C29: after any sequence of constructions, set_holding_period and
\* set_rf_rate calls, accepted or rejected, an optimizer's holding_period
\* is one of the ten labels and its period is the yfinance form of that
\* label; set_rf_rate changes neither.
C29_PeriodFollowsHoldingPeriod ==
  [][/\ optimizer'.alive
          => /\ optimizer'.holding_period \in TenLabels
             /\ optimizer'.period = ClaimedYfPeriod(optimizer'.holding_period)
     /\ last_call'.op = "set_rf_rate"
          => /\ optimizer'.holding_period = optimizer.holding_period
             /\ optimizer'.period = optimizer.period]_vars

\* The holding period changed twice, to 10 Yr at last, then the rate set
\* by hand: the period is 10y.
C29_Witness ==
  /\ last_call.op = "set_rf_rate"
  /\ fetches = 2
  /\ optimizer.holding_period = "10 Yr"
  /\ optimizer.period = "10y"
  /\ optimizer.rf_rate = 100


\* get_allocation returned.
Allocated == last_call.op = "get_allocation" /\ last_call.status = "ok"

C22_LeftoverReturned ==
  Allocated =>
    /\ last_call.allocation.shares = last_call.allocation.lp_shares
    /\ last_call.allocation.has_leftover
    /\ last_call.allocation.leftover = last_call.allocation.lp_leftover


\* The cap the caller means: the cap itself when it is a positive integer,
\* 15 otherwise.
ClaimedCap(cap) ==
  IF cap.kind = "int" /\ cap.value > 0 THEN cap.value ELSE 15

\* C26: get_list_of_screened_stocks returns at most max_results_cap
\* symbols (at most 15 for a cap that is not a positive integer), whatever
\* the number of rows of the screener.
C26_AtMostCapSymbols ==
  (screened.called /\ screened.status = "ok")
    => Len(screened.symbols) <= ClaimedCap(screened.cap)

\* C27: get_cik_from_ticker on a known ticker completes and leaves
\* current_cik at that ticker's CIK; on an unknown ticker it leaves
\* current_cik at the CIK of current_ticker, or None when current_ticker is
\* None or unknown.
C27_CikOfSelectedTicker ==
  edgar.last.op = "get_cik_from_ticker" =>
    IF Upper(edgar.last.arg) \in edgar.company_data
    THEN /\ edgar.last.status = "ok"
         /\ edgar.current_cik = Cik(Upper(edgar.last.arg))
    ELSE edgar.current_cik =
           (IF edgar.current_ticker \in edgar.company_data
            THEN Cik(edgar.current_ticker) ELSE "None")


\* The stages at which a request fails for an input the caller can
\* correct: the body, a missing field, the holding-period label, the
\* returns or covariance type, the method or the portfolio value.
BadInputFailure ==
  \/ response.stage \in {"body", "tickers", "period", "holding_period",
                         "optimizer", "returns", "covariance"}
  \/ response.stage = "solve"
       /\ response.request.method \notin
            {"max_sharpe", "min_volatility", "efficient_return",
             "efficient_risk"}
  \/ response.stage = "allocation" /\ response.request.portfolio_value < 0

\* The solver failed on a supported method.
SolverFailure ==
  /\ response.stage = "solve"
  /\ response.request.method \in {"max_sharpe", "min_volatility"}

\* C23: a cleaning failure and every other bad input of the caller is
\* answered 4xx, a solver failure 5xx, and a failing request returns no
\* weights, performance or allocation.
C23_FailuresClassified ==
  response.http # 0 =>
    /\ response.stage = "clean" => response.http \in 400..499
    /\ BadInputFailure => response.http \in 400..499
    /\ SolverFailure => response.http \in 500..599
    /\ response.http # 200 =>
         response.fields \cap {"weights", "performance", "allocation"} = {}

\* C28: in a 200 response used_tickers and removed_tickers are disjoint,
\* every requested ticker is in exactly one of them, and every key of
\* weights and of allocation is in used_tickers.
C28_UsedAndRemovedPartition ==
  response.http = 200 =>
    LET used == SetOf(response.used_tickers)
        removed == SetOf(response.removed_tickers)
    IN  /\ used \cap removed = {}
        /\ \A t \in SetOf(response.request.tickers) : t \in used \cup removed
        /\ DOMAIN response.weights \subseteq used
        /\ DOMAIN response.allocation \subseteq used

\* B and C requested, the table has A and B: A and B used, C removed, the
\* cleaned weights keep B only and the allocation buys B.
C28_Witness ==
  /\ response.http = 200
  /\ response.request.tickers = <<"B", "C">>
  /\ response.used_tickers = <<"A", "B">>
  /\ response.removed_tickers = <<"C">>
  /\ DOMAIN response.weights = {"B"}


\* The points a request of num portfolios over n assets gets when it is
\* the only one: the first num draws of n numbers after the seed.
ClaimedPoints(n, num) ==
  [k \in 1..num |-> [seed |-> 42, at |-> (k - 1) * n]]

\* C24: under any interleaving of two requests, the frontier points, the
\* risk-free rate and the weights of a request are those of its own inputs:
\* the points are the ones it gets alone, the rate is its own optimizer's.
C24_ResultsIndependent ==
  \A i \in Handlers :
    (procs[i].pc = "done" /\ procs[i].http = 200) =>
      /\ procs[i].results = ClaimedPoints(procs[i].n, procs[i].num_portfolios)
      /\ procs[i].risk_free_rate = procs[i].optimizer.rf_rate

\* C30: each finished plot request has a URL whose chart file holds its
\* own two lines and nothing else.
C30_EachChartOwnPlot ==
  \A i \in Handlers :
    procs[i].pc = "done" =>
      \E c \in charts :
        /\ c.name = procs[i].url
        /\ c.content = {<<i, "Portfolio">>, <<i, "S&P 500">>}

====
